---------------------------- MODULE Spec2Model ----------------------------
(***************************************************************************)
(* A model of the zenmonitor monitoring engine (package monitor): one      *)
(* goroutine per configured monitor runs runMonitor, which creates a       *)
(* ticker, performs a check at once and then one check per tick until the  *)
(* stop channel is closed.  performCheck probes the target, logs the       *)
(* result to the Store, updates lastState under the mutex and calls the    *)
(* Notifier when the recorded status flips.                                *)
(*                                                                         *)
(* Durations are whole seconds.  Strings that the code inspects character  *)
(* by character (interval strings) are sequences of one-character strings. *)
(*                                                                         *)
(* No counter bounds a run: a loop may perform any number of checks.  The  *)
(* state is finite because only the status of the last completed check of  *)
(* each monitor and the calls of its current check are kept.               *)
(***************************************************************************)
EXTENDS Integers, Sequences, FiniteSets, TLC

(***************************************************************************)
(* Configuration (package config)                                          *)
(***************************************************************************)

\* The names of the configured monitors (MonitorConfig.Name, unique).
Targets == {"svc", "db"}

\* Interval strings a configuration may hold ("" is the unset override; an
\* engine built without LoadConfig may also have an empty global interval).
Unset == << >>
IntervalStrings ==
    { Unset,
      <<"3", "0", "s">>,
      <<"1", "m", "3", "0", "s">>,
      <<"0">>,
      <<"-", "5", "s">>,
      <<"a", "b", "c">>,
      <<"1", "0">> }

Digits == {"0", "1", "2", "3", "4", "5", "6", "7", "8", "9"}

DigitValue(c) ==
    CASE c = "0" -> 0 [] c = "1" -> 1 [] c = "2" -> 2 [] c = "3" -> 3
      [] c = "4" -> 4 [] c = "5" -> 5 [] c = "6" -> 6 [] c = "7" -> 7
      [] c = "8" -> 8 [] c = "9" -> 9

\* The units time.ParseDuration knows, in seconds (sub-second units are
\* outside the alphabet of IntervalStrings).
UnitSeconds(u) ==
    CASE u = <<"s">> -> 1
      [] u = <<"m">> -> 60
      [] u = <<"h">> -> 3600
      [] OTHER -> 0

KnownUnit(u) == u \in {<<"s">>, <<"m">>, <<"h">>}

\* The longest prefix of s made of digits / of non-digits.
RECURSIVE DigitPrefixLen(_)
DigitPrefixLen(s) ==
    IF s = << >> \/ Head(s) \notin Digits THEN 0 ELSE 1 + DigitPrefixLen(Tail(s))

RECURSIVE UnitPrefixLen(_)
UnitPrefixLen(s) ==
    IF s = << >> \/ Head(s) \in Digits THEN 0 ELSE 1 + UnitPrefixLen(Tail(s))

RECURSIVE Number(_, _)
Number(s, acc) ==
    IF s = << >> THEN acc ELSE Number(Tail(s), 10 * acc + DigitValue(Head(s)))

\* The groups "<digits><unit>" of an unsigned duration string, summed.
RECURSIVE ParseGroups(_, _)
ParseGroups(s, acc) ==
    IF s = << >> THEN [err |-> FALSE, dur |-> acc]
    ELSE LET n == DigitPrefixLen(s)
             rest == SubSeq(s, n + 1, Len(s))
             k == UnitPrefixLen(rest)
             unit == SubSeq(rest, 1, k)
         IN  IF n = 0 THEN [err |-> TRUE, dur |-> 0]
             ELSE IF k = 0 \/ ~KnownUnit(unit) THEN [err |-> TRUE, dur |-> 0]
             ELSE ParseGroups(SubSeq(rest, k + 1, Len(rest)),
                              acc + Number(SubSeq(s, 1, n), 0) * UnitSeconds(unit))

\* time.ParseDuration: [-+]?([0-9]+[a-z]+)+, or "0"; anything else is an error.
TimeParseDuration(d) ==
    LET neg == d # << >> /\ Head(d) = "-"
        signed == d # << >> /\ Head(d) \in {"-", "+"}
        body == IF signed THEN Tail(d) ELSE d
    IN  IF d = << >> THEN [err |-> TRUE, dur |-> 0]
        ELSE IF body = <<"0">> THEN [err |-> FALSE, dur |-> 0]
        ELSE IF body = << >> THEN [err |-> TRUE, dur |-> 0]
        ELSE LET r == ParseGroups(body, 0)
             IN  IF r.err THEN r
                 ELSE [err |-> FALSE, dur |-> IF neg THEN 0 - r.dur ELSE r.dur]

\* The fallback of config.ParseDuration, in seconds.
DefaultInterval == 60

\* config.ParseDuration
ParseDuration(d) ==
    LET r == TimeParseDuration(d) IN IF r.err THEN DefaultInterval ELSE r.dur


\* config.MonitorConfig: the fields runMonitor and performCheck read.
HealthURL == "http://x/health"

MonitorShapes ==
    { [Type |-> "http",  URL |-> HealthURL],
      [Type |-> "https", URL |-> HealthURL],
      [Type |-> "tcp",   URL |-> ""],
      [Type |-> "icmp",  URL |-> ""],
      [Type |-> "",      URL |-> HealthURL],
      [Type |-> "",      URL |-> ""] }

MonitorConfig(name, shape, iv) ==
    [Name |-> name, Type |-> shape.Type, URL |-> shape.URL, Interval |-> iv]

\* config.Config: Global.CheckInterval and Monitors (indexed by name).
Config(global, monitors) ==
    [Global |-> [CheckInterval |-> global], Monitors |-> monitors]

\* The default configuration, which the families of configurations below vary.
DefaultShape == [Type |-> "http", URL |-> HealthURL]
OtherShape == [Type |-> "tcp", URL |-> ""]
DefaultGlobal == <<"3", "0", "s">>

DefaultMonitors ==
    [t \in Targets |->
        MonitorConfig(t, IF t = "svc" THEN DefaultShape ELSE OtherShape, Unset)]

\* The configurations the engine is constructed with: every global interval
\* with no override, every override of "svc" under the default global
\* interval, and every type and URL of "svc" ("db" stays a tcp monitor).
GlobalConfigs ==
    { Config(g, DefaultMonitors) : g \in IntervalStrings }

OverrideConfigs ==
    { Config(DefaultGlobal, [DefaultMonitors EXCEPT !["svc"].Interval = iv]) :
        iv \in IntervalStrings }

ShapeConfigs ==
    { Config(DefaultGlobal,
             [DefaultMonitors EXCEPT !["svc"].Type = sh.Type, !["svc"].URL = sh.URL]) :
        sh \in MonitorShapes }

Configs == GlobalConfigs \cup OverrideConfigs \cup ShapeConfigs

DefaultConfig == Config(DefaultGlobal, DefaultMonitors)

\* The most Send goroutines counted as in flight, and the most senders of a
\* notifier.Service.
MaxSending == 2

\* The arguments of NewEngine: a configuration with a Store and a Notifier
\* without senders (NewService of an empty notification list), or the default
\* configuration with either collaborator nil, or the default configuration
\* with a Store and a Notifier of up to MaxSending senders.
Engines ==
    { [cfg |-> c, store |-> TRUE, notifier |-> TRUE, senders |-> 0] :
        c \in Configs }
    \cup { [cfg |-> DefaultConfig, store |-> st, notifier |-> nt,
             senders |-> 0] : st \in BOOLEAN, nt \in BOOLEAN }
    \cup { [cfg |-> DefaultConfig, store |-> TRUE, notifier |-> TRUE,
             senders |-> n] : n \in 1..MaxSending }

(***************************************************************************)
(* The engine (package monitor)                                            *)
(***************************************************************************)

VARIABLES
    Cfg,        \* Engine.Cfg
    Store,      \* Engine.Store is not nil
    Notifier,   \* Engine.Notifier is not nil
    Senders,    \* len(Service.Senders) of the Notifier
    sending,    \* the Send goroutines in flight (MaxSending: that many or more)
    lastState,  \* Engine.lastState: a map from monitor name to bool
    mu,         \* Engine.mu: "unlocked" or the monitor whose goroutine holds it
    stopCh,     \* Engine.stopCh: "open" or "closed"
    started,    \* Start() has launched the goroutines
    fault,      \* the panic that ended the process, if any
    pc,         \* where each monitor's goroutine is
    interval,   \* runMonitor's local interval
    ticker,     \* runMonitor's ticker: "none", "running", "stopped"
    tickC,      \* a tick waits in ticker.C (a channel of capacity 1)
    result,     \* performCheck's local result
    wasUp,      \* performCheck's local wasUp
    exists,     \* performCheck's local exists
    calls,      \* the collaborator calls of the current check, in order
    logErr,     \* Store.LogCheck returned an error in the current check
    notifyArgs, \* the arguments of the Notify call of the current check
    done,       \* the status of the monitor's last completed check, if any
    caught,     \* the monitors whose check, in flight at Stop(), has not returned
    open        \* per monitor, the calls of performCheck that have not returned

engineVars ==
    <<Cfg, Store, Notifier, Senders, lastState, mu, stopCh, started, fault>>
loopVars == <<pc, interval, ticker, tickC, result, wasUp, exists>>
obsVars == <<calls, logErr, notifyArgs, done, caught, open>>
vars == <<engineVars, loopVars, obsVars, sending>>

Unlocked == "unlocked"
NoFault == [msg |-> "", in |-> ""]
NoResult == [MonitorName |-> "", Status |-> FALSE, Error |-> ""]

\* monitor.CheckResult (Timestamp and Latency are not modelled)
CheckResult(name, status, error) ==
    [MonitorName |-> name, Status |-> status, Error |-> error]

\* The places of a monitor's goroutine: not launched, at the head of
\* runMonitor, inside performCheck (probe .. alert), at the select, returned,
\* or gone with the process.
Pcs == {"init", "ticker", "probe", "log", "lock", "write", "alert", "select",
        "exited", "dead"}

\* The panics of the engine, with the goroutine (or call) they came from.
Faults ==
    { NoFault, [msg |-> "close of closed channel", in |-> "Stop"] }
    \cup { [msg |-> "non-positive interval for NewTicker", in |-> t] : t \in Targets }

TypeOK ==
    /\ Cfg \in Configs
    /\ Store \in BOOLEAN /\ Notifier \in BOOLEAN
    /\ Senders \in 0..MaxSending /\ sending \in 0..MaxSending
    /\ DOMAIN lastState \subseteq Targets
    /\ \A t \in DOMAIN lastState : lastState[t] \in BOOLEAN
    /\ mu \in Targets \cup {Unlocked}
    /\ stopCh \in {"open", "closed"}
    /\ started \in BOOLEAN
    /\ fault \in Faults
    /\ pc \in [Targets -> Pcs]
    /\ interval \in [Targets -> Int]
    /\ ticker \in [Targets -> {"none", "running", "stopped"}]
    /\ tickC \in [Targets -> BOOLEAN]
    /\ \A t \in Targets :
          /\ result[t].MonitorName \in Targets \cup {""}
          /\ result[t].Status \in BOOLEAN
          /\ calls[t] \in Seq({"LogCheck", "lastState", "Notify"})
          /\ Len(done[t]) <= 1
    /\ wasUp \in [Targets -> BOOLEAN]
    /\ exists \in [Targets -> BOOLEAN]
    /\ logErr \in [Targets -> BOOLEAN]
    /\ caught \subseteq Targets
    /\ open \in [Targets -> Nat]

\* NewEngine
Init ==
    /\ \E e \in Engines :
          /\ Cfg = e.cfg
          /\ Store = e.store
          /\ Notifier = e.notifier
          /\ Senders = e.senders
    /\ sending = 0
    /\ lastState = << >>
    /\ mu = Unlocked
    /\ stopCh = "open"
    /\ started = FALSE
    /\ fault = NoFault
    /\ pc = [t \in Targets |-> "init"]
    /\ interval = [t \in Targets |-> 0]
    /\ ticker = [t \in Targets |-> "none"]
    /\ tickC = [t \in Targets |-> FALSE]
    /\ result = [t \in Targets |-> NoResult]
    /\ wasUp = [t \in Targets |-> FALSE]
    /\ exists = [t \in Targets |-> FALSE]
    /\ calls = [t \in Targets |-> << >>]
    /\ logErr = [t \in Targets |-> FALSE]
    /\ notifyArgs = [t \in Targets |-> << >>]
    /\ done = [t \in Targets |-> << >>]
    /\ caught = {}
    /\ open = [t \in Targets |-> 0]

\* A panic that no goroutine recovers ends the process: every goroutine is gone,
\* and with it every check and every Send in flight.
Panic(msg, who) ==
    /\ fault' = [msg |-> msg, in |-> who]
    /\ pc' = [t \in Targets |-> "dead"]
    /\ caught' = {}
    /\ open' = [t \in Targets |-> 0]
    /\ sending' = 0

Alive == fault = NoFault

\* Engine.Start: one goroutine per monitor.
Start ==
    /\ Alive
    /\ ~started
    /\ started' = TRUE
    /\ pc' = [t \in Targets |-> "ticker"]
    /\ UNCHANGED <<Cfg, Store, Notifier, Senders, lastState, mu, stopCh, fault>>
    /\ UNCHANGED <<interval, ticker, tickC, result, wasUp, exists>>
    /\ UNCHANGED obsVars
    /\ UNCHANGED sending

\* The places of a goroutine inside performCheck.
CheckPcs == {"probe", "log", "lock", "write", "alert"}

\* A Stop that does nothing when the channel is already closed.
Stop_Idempotent ==
    /\ Alive
    /\ IF stopCh = "closed"
       THEN UNCHANGED <<stopCh, fault, pc, caught, sending, open>>
       ELSE /\ stopCh' = "closed"
            /\ caught' = { t \in Targets : pc[t] \in CheckPcs }
            /\ UNCHANGED <<fault, pc, sending, open>>
    /\ UNCHANGED <<Cfg, Store, Notifier, Senders, lastState, mu, started>>
    /\ UNCHANGED <<interval, ticker, tickC, result, wasUp, exists>>
    /\ UNCHANGED <<calls, logErr, notifyArgs, done>>

\* A Stop that cancels the checks in flight instead of leaving them alone.
Stop_Interrupts ==
    /\ Alive
    /\ IF stopCh = "closed"
       THEN /\ Panic("close of closed channel", "Stop")
            /\ UNCHANGED stopCh
       ELSE /\ stopCh' = "closed"
            /\ caught' = { t \in Targets : pc[t] \in CheckPcs }
            /\ pc' = [t \in Targets |->
                        IF pc[t] \in CheckPcs THEN "exited" ELSE pc[t]]
            /\ UNCHANGED <<fault, sending, open>>
    /\ UNCHANGED <<Cfg, Store, Notifier, Senders, lastState, mu, started>>
    /\ UNCHANGED <<interval, ticker, tickC, result, wasUp, exists>>
    /\ UNCHANGED <<calls, logErr, notifyArgs, done>>

\* Engine.Stop: close(e.stopCh); closing a closed channel panics.
Stop ==
    /\ Alive
    /\ IF stopCh = "closed"
       THEN /\ Panic("close of closed channel", "Stop")
            /\ UNCHANGED stopCh
       ELSE /\ stopCh' = "closed"
            /\ caught' = { t \in Targets : pc[t] \in CheckPcs }
            /\ UNCHANGED <<fault, pc, sending, open>>
    /\ UNCHANGED <<Cfg, Store, Notifier, Senders, lastState, mu, started>>
    /\ UNCHANGED <<interval, ticker, tickC, result, wasUp, exists>>
    /\ UNCHANGED <<calls, logErr, notifyArgs, done>>

\* runMonitor, lines 64-67: the interval of the loop of monitor m.
EffectiveInterval_GlobalOnError(global, m) ==
    IF m.Interval # Unset /\ ~TimeParseDuration(m.Interval).err
    THEN ParseDuration(m.Interval)
    ELSE ParseDuration(global)

EffectiveInterval(global, m) ==
    IF m.Interval # Unset THEN ParseDuration(m.Interval) ELSE ParseDuration(global)

\* Where runMonitor goes once its ticker runs: the initial check.
AfterTicker_WaitFirst == "select"

AfterTicker == "probe"

\* runMonitor, lines 64-73: time.NewTicker panics unless the interval is positive.
RunMonitor(t) ==
    /\ pc[t] = "ticker"
    /\ LET iv == EffectiveInterval(Cfg.Global.CheckInterval, Cfg.Monitors[t])
       IN  /\ interval' = [interval EXCEPT ![t] = iv]
           /\ IF iv <= 0
              THEN /\ Panic("non-positive interval for NewTicker", t)
                   /\ UNCHANGED ticker
              ELSE /\ ticker' = [ticker EXCEPT ![t] = "running"]
                   /\ pc' = [pc EXCEPT ![t] = AfterTicker]
                   /\ open' = [open EXCEPT ![t] = @ + 1]
                   /\ UNCHANGED <<fault, caught, sending>>
    /\ UNCHANGED <<Cfg, Store, Notifier, Senders, lastState, mu, stopCh, started>>
    /\ UNCHANGED <<tickC, result, wasUp, exists>>
    /\ UNCHANGED <<calls, logErr, notifyArgs, done>>

\* The runtime's ticker: a tick is sent unless one still waits in the channel.
Tick(t) ==
    /\ Alive
    /\ ticker[t] = "running"
    /\ ~tickC[t]
    /\ tickC' = [tickC EXCEPT ![t] = TRUE]
    /\ UNCHANGED engineVars
    /\ UNCHANGED <<pc, interval, ticker, result, wasUp, exists>>
    /\ UNCHANGED obsVars
    /\ UNCHANGED sending

(***************************************************************************)
(* performCheck                                                            *)
(***************************************************************************)

\* What checkHTTP, checkTCP and checkICMP can return: <<success, error>>.
HTTPOutcomes ==
    { <<TRUE, "">>,
      <<FALSE, "connection error">>,
      <<FALSE, "status code 503, expected 200">> }

TCPOutcomes == { <<TRUE, "">>, <<FALSE, "dial error">> }

\* A checkICMP that pings.
ICMPOutcomes_Ping == { <<TRUE, "">>, <<FALSE, "ping failed">> }

ICMPOutcomes ==
    { <<FALSE, "ICMP not yet implemented (requires decision on root vs shell)">> }

\* A dispatch whose default case does not fall back to checkHTTP.
ProbeOutcomes_NoFallback(m) ==
    IF m.Type \in {"http", "https"} THEN HTTPOutcomes
    ELSE IF m.Type = "tcp" THEN TCPOutcomes
    ELSE IF m.Type = "icmp" THEN ICMPOutcomes
    ELSE { <<FALSE, "unknown monitor type">> }

\* A dispatch whose default case sets no error when there is no URL.
ProbeOutcomes_SilentUnknown(m) ==
    IF m.Type \in {"http", "https"} THEN HTTPOutcomes
    ELSE IF m.Type = "tcp" THEN TCPOutcomes
    ELSE IF m.Type = "icmp" THEN ICMPOutcomes
    ELSE IF m.URL # "" THEN HTTPOutcomes
    ELSE { <<FALSE, "">> }

\* performCheck, lines 91-112: the dispatch on m.Type.
ProbeOutcomes(m) ==
    IF m.Type \in {"http", "https"} THEN HTTPOutcomes
    ELSE IF m.Type = "tcp" THEN TCPOutcomes
    ELSE IF m.Type = "icmp" THEN ICMPOutcomes
    ELSE IF m.URL # "" THEN HTTPOutcomes
    ELSE { <<FALSE, "unknown monitor type">> }

\* performCheck, lines 86-120: the probe runs and the result is built.
Probe(t) ==
    /\ pc[t] = "probe"
    /\ \E out \in ProbeOutcomes(Cfg.Monitors[t]) :
          result' = [result EXCEPT ![t] = CheckResult(Cfg.Monitors[t].Name, out[1], out[2])]
    /\ pc' = [pc EXCEPT ![t] = "log"]
    /\ UNCHANGED engineVars
    /\ UNCHANGED <<interval, ticker, tickC, wasUp, exists>>
    /\ UNCHANGED obsVars
    /\ UNCHANGED sending

\* Where performCheck goes after Store.LogCheck returned (err: it failed).
AfterLog_ReturnOnError(err) == IF err THEN "select" ELSE "lock"

AfterLog(err) == "lock"

LogCheck_OnlyFailures(t) ==
    /\ pc[t] = "log"
    /\ IF Store /\ ~result[t].Status
       THEN \E err \in BOOLEAN :
               /\ calls' = [calls EXCEPT ![t] = Append(@, "LogCheck")]
               /\ logErr' = [logErr EXCEPT ![t] = err]
               /\ pc' = [pc EXCEPT ![t] = AfterLog(err)]
       ELSE /\ pc' = [pc EXCEPT ![t] = AfterLog(FALSE)]
            /\ UNCHANGED <<calls, logErr>>
    /\ UNCHANGED engineVars
    /\ UNCHANGED <<interval, ticker, tickC, result, wasUp, exists>>
    /\ UNCHANGED <<notifyArgs, done, caught, open>>
    /\ UNCHANGED sending

\* performCheck, lines 122-126: the result is logged when a Store is set.
LogCheck(t) ==
    /\ pc[t] = "log"
    /\ IF Store
       THEN \E err \in BOOLEAN :
               /\ calls' = [calls EXCEPT ![t] = Append(@, "LogCheck")]
               /\ logErr' = [logErr EXCEPT ![t] = err]
               /\ pc' = [pc EXCEPT ![t] = AfterLog(err)]
       ELSE /\ pc' = [pc EXCEPT ![t] = AfterLog(FALSE)]
            /\ UNCHANGED <<calls, logErr>>
    /\ UNCHANGED engineVars
    /\ UNCHANGED <<interval, ticker, tickC, result, wasUp, exists>>
    /\ UNCHANGED <<notifyArgs, done, caught, open>>
    /\ UNCHANGED sending

\* A read of the prior status that does not wait for the mutex.
LockAndRead_NoLock(t) ==
    /\ pc[t] = "lock"
    /\ mu' = t
    /\ exists' = [exists EXCEPT ![t] = t \in DOMAIN lastState]
    /\ wasUp' = [wasUp EXCEPT ![t] = IF t \in DOMAIN lastState THEN lastState[t] ELSE FALSE]
    /\ pc' = [pc EXCEPT ![t] = "write"]
    /\ UNCHANGED <<Cfg, Store, Notifier, Senders, lastState, stopCh, started, fault>>
    /\ UNCHANGED <<interval, ticker, tickC, result>>
    /\ UNCHANGED obsVars
    /\ UNCHANGED sending

\* performCheck, lines 129-130: the mutex is taken and the prior status read
\* (a missing key reads as false, false).
LockAndRead(t) ==
    /\ pc[t] = "lock"
    /\ mu = Unlocked
    /\ mu' = t
    /\ exists' = [exists EXCEPT ![t] = t \in DOMAIN lastState]
    /\ wasUp' = [wasUp EXCEPT ![t] = IF t \in DOMAIN lastState THEN lastState[t] ELSE FALSE]
    /\ pc' = [pc EXCEPT ![t] = "write"]
    /\ UNCHANGED <<Cfg, Store, Notifier, Senders, lastState, stopCh, started, fault>>
    /\ UNCHANGED <<interval, ticker, tickC, result>>
    /\ UNCHANGED obsVars
    /\ UNCHANGED sending

\* The mutex after line 132.
AfterWriteMu_KeepLock(t) == t

AfterWriteMu(t) == Unlocked

\* The map after line 131.
Recorded_OnlyNew(map, name, status) ==
    IF name \in DOMAIN map THEN map ELSE (name :> status) @@ map

Recorded(map, name, status) == (name :> status) @@ map

\* performCheck, lines 131-132: the new status is stored and the mutex released.
WriteAndUnlock(t) ==
    /\ pc[t] = "write"
    /\ lastState' = Recorded(lastState, Cfg.Monitors[t].Name, result[t].Status)
    /\ mu' = AfterWriteMu(t)
    /\ calls' = [calls EXCEPT ![t] = Append(@, "lastState")]
    /\ pc' = [pc EXCEPT ![t] = "alert"]
    /\ UNCHANGED <<Cfg, Store, Notifier, Senders, stopCh, started, fault>>
    /\ UNCHANGED <<interval, ticker, tickC, result, wasUp, exists>>
    /\ UNCHANGED <<logErr, notifyArgs, done, caught, open>>
    /\ UNCHANGED sending

\* performCheck, line 138: the condition under which the Notifier is called.
ShouldNotify_IgnoreExists(ex, was, success) == was # success

ShouldNotify_DownOnly(ex, was, success) == ex /\ was /\ ~success

ShouldNotify(ex, was, success) == ex /\ was # success

\* A Notify call with the new and the prior status exchanged.
NotifyArgs_Swapped(name, success, was) == <<name, was, success>>

\* performCheck, line 140: e.Notifier.Notify(m.Name, success, wasUp).
NotifyArgs(name, success, was) == <<name, success, was>>

\* Service.Notify waits for the Sends in flight before it returns.
NotifyWaits_ForSends == sending > 0

\* Service.Notify, lines 51-56: each Send runs in a goroutine of its own and
\* Notify waits for none of them.
NotifyWaits == FALSE

\* Service.Notify, lines 51-56: one Send goroutine per sender.
Spawned(n) == IF sending + n > MaxSending THEN MaxSending ELSE sending + n

\* performCheck, lines 138-143: Notify(m.Name, success, wasUp) on a flip, when
\* a Notifier is set; performCheck returns to the loop of runMonitor and its
\* locals are gone.
Alert(t) ==
    /\ pc[t] = "alert"
    /\ IF ShouldNotify(exists[t], wasUp[t], result[t].Status) /\ Notifier
       THEN /\ ~NotifyWaits
            /\ calls' = [calls EXCEPT ![t] = Append(@, "Notify")]
            /\ notifyArgs' = [notifyArgs EXCEPT ![t] =
                  NotifyArgs(Cfg.Monitors[t].Name, result[t].Status, wasUp[t])]
            /\ sending' = Spawned(Senders)
       ELSE UNCHANGED <<calls, notifyArgs, sending>>
    /\ pc' = [pc EXCEPT ![t] = "select"]
    /\ result' = [result EXCEPT ![t] = NoResult]
    /\ wasUp' = [wasUp EXCEPT ![t] = FALSE]
    /\ exists' = [exists EXCEPT ![t] = FALSE]
    /\ UNCHANGED engineVars
    /\ done' = [done EXCEPT ![t] = <<result[t].Status>>]
    /\ caught' = caught \ {t}
    /\ open' = [open EXCEPT ![t] = @ - 1]
    /\ UNCHANGED <<interval, ticker, tickC>>
    /\ UNCHANGED logErr

\* Service.Notify, line 54: a Send returns, with an error or without; its
\* result is discarded.  A Send that blocks forever never takes this step.
SendReturns ==
    /\ Alive
    /\ sending > 0
    /\ sending' = sending - 1
    /\ UNCHANGED <<engineVars, loopVars, obsVars>>

(***************************************************************************)
(* The loop of runMonitor                                                  *)
(***************************************************************************)

\* runMonitor, lines 77-78: the stop channel is closed; the deferred
\* ticker.Stop() runs and the goroutine ends.
SelectStop(t) ==
    /\ pc[t] = "select"
    /\ stopCh = "closed"
    /\ pc' = [pc EXCEPT ![t] = "exited"]
    /\ ticker' = [ticker EXCEPT ![t] = "stopped"]
    /\ UNCHANGED engineVars
    /\ UNCHANGED <<interval, tickC, result, wasUp, exists>>
    /\ UNCHANGED obsVars
    /\ UNCHANGED sending

\* A loop that starts the check of a tick without waiting for the check in
\* progress to return.
SelectTick_Async(t) ==
    /\ pc[t] \in CheckPcs \cup {"select"}
    /\ tickC[t]
    /\ tickC' = [tickC EXCEPT ![t] = FALSE]
    /\ pc' = [pc EXCEPT ![t] = "probe"]
    /\ calls' = [calls EXCEPT ![t] = << >>]
    /\ logErr' = [logErr EXCEPT ![t] = FALSE]
    /\ notifyArgs' = [notifyArgs EXCEPT ![t] = << >>]
    /\ open' = [open EXCEPT ![t] = @ + 1]
    /\ UNCHANGED engineVars
    /\ UNCHANGED <<interval, ticker, result, wasUp, exists>>
    /\ UNCHANGED <<done, caught>>
    /\ UNCHANGED sending

\* runMonitor, lines 79-80: a tick is received and the next check starts (the
\* record of the previous check's calls is cleared).  When both cases of the
\* select are ready, Go takes either.
SelectTick(t) ==
    /\ pc[t] = "select"
    /\ tickC[t]
    /\ tickC' = [tickC EXCEPT ![t] = FALSE]
    /\ pc' = [pc EXCEPT ![t] = "probe"]
    /\ calls' = [calls EXCEPT ![t] = << >>]
    /\ logErr' = [logErr EXCEPT ![t] = FALSE]
    /\ notifyArgs' = [notifyArgs EXCEPT ![t] = << >>]
    /\ open' = [open EXCEPT ![t] = @ + 1]
    /\ UNCHANGED engineVars
    /\ UNCHANGED <<interval, ticker, result, wasUp, exists>>
    /\ UNCHANGED <<done, caught>>
    /\ UNCHANGED sending

PerformCheck(t) ==
    \/ Probe(t)
    \/ LogCheck(t)
    \/ LockAndRead(t)
    \/ WriteAndUnlock(t)
    \/ Alert(t)

Loop(t) ==
    \/ RunMonitor(t)
    \/ PerformCheck(t)
    \/ SelectStop(t)
    \/ SelectTick(t)

Next ==
    \/ Start
    \/ Stop
    \/ \E t \in Targets : Loop(t)
    \/ \E t \in Targets : Tick(t)
    \/ SendReturns

Spec == Init /\ [][Next]_vars

(***************************************************************************)
(* Properties                                                              *)
(***************************************************************************)

\* The current (or last) check of t called the Notifier.
Notified(t) == notifyArgs[t] # << >>

\* How often op was called in the current (or last) check of t.
Count(t, op) == Cardinality({ i \in DOMAIN calls[t] : calls[t][i] = op })

\* performCheck of t returns in this step.
Returns(t) == pc[t] = "alert" /\ pc'[t] = "select"

\* The check of t that is about to return saw a status other than that of
\* the last completed check of t.
Flip(t) == done[t] # << >> /\ done[t][1] # result[t].Status

\* C1: with a Notifier set, a check that completes calls Notify if and only
\* if the monitor has a completed check before it and the status of this check
\* differs from the status of that one; it does so exactly once on a flip
\* and not at all otherwise.
C1_NotifyIffFlip ==
    [][\A t \in Targets :
          (Notifier /\ Returns(t)) =>
             /\ Notified(t)' <=> Flip(t)
             /\ Count(t, "Notify")' = IF Flip(t) THEN 1 ELSE 0]_vars

\* One monitor has just notified a flip while the other is about to return
\* from a check that repeats the status of its previous check.
C1_Witness ==
    /\ Notifier
    /\ pc["svc"] = "select" /\ Notified("svc") /\ Count("svc", "Notify") = 1
    /\ pc["db"] = "alert" /\ result["db"].Status /\ done["db"] = <<TRUE>>

\* C2: the first check of a monitor to complete (no check of it completed
\* before, and it found no entry in lastState) has recorded its status in
\* lastState and returns without a call of Notify, whatever its status.
C2_FirstCheckSilent ==
    [][\A t \in Targets :
          (Returns(t) /\ done[t] = << >>) =>
             /\ ~exists[t]
             /\ t \in DOMAIN lastState /\ lastState[t] = result[t].Status
             /\ ~Notified(t)' /\ Count(t, "Notify")' = 0]_vars

\* A first check that succeeded, has recorded its status and is about to return.
C2_Witness ==
    \E t \in Targets :
       /\ Notifier
       /\ pc[t] = "alert" /\ done[t] = << >> /\ ~exists[t]
       /\ result[t].Status /\ t \in DOMAIN lastState /\ lastState[t] = TRUE

\* C3: once Stop() has been called while a check was in flight, no panic
\* occurs while that check goes on (other than that of a second Stop(), which
\* is another call), and once every loop has exited no check result is
\* produced, logged or recorded.
\* (That every loop then exits is a liveness property of the fair select.)
C3_StopInFlightNoPanic ==
    [][/\ (caught # {} /\ fault' # NoFault) => fault'.in = "Stop"
       /\ (\A t \in Targets : pc[t] = "exited") =>
             UNCHANGED <<result, lastState, calls, done>>]_vars

\* C4: the mutex is held only between the read and the write of lastState,
\* never during a probe, a Store call or a Notify call; so while the probe
\* of one monitor is in flight, every other monitor inside a check can take
\* its next step, and one waiting at the select with a tick can start a check.
C4_LoopsIndependent ==
    /\ \A t \in Targets : mu = t => pc[t] \in {"write", "dead"}
    /\ \A a \in Targets : \A b \in Targets \ {a} :
          pc[a] = "probe" =>
             /\ pc[b] \in CheckPcs => ENABLED PerformCheck(b)
             /\ (pc[b] = "select" /\ tickC[b]) => ENABLED SelectTick(b)

\* The first probe of "svc" is still in flight while "db" has completed a
\* check that notified a flip and waits to take the mutex in its next check.
C4_Witness ==
    /\ pc["svc"] = "probe" /\ done["svc"] = << >>
    /\ pc["db"] = "lock" /\ done["db"] # << >> /\ "db" \in DOMAIN lastState
    /\ result["db"].Status # lastState["db"]
    /\ Notifier /\ Store

\* The calls of one check, in the order performCheck makes them.
CheckOrder ==
    IF Store THEN <<"LogCheck", "lastState", "Notify">> ELSE <<"lastState", "Notify">>

IsPrefix(s, r) == Len(s) <= Len(r) /\ s = SubSeq(r, 1, Len(s))

\* C5: in every check the calls are made in the order LogCheck, update of
\* lastState, Notify: with a Store set LogCheck is called exactly once before
\* the mutex is taken, whatever the result; the update follows; and Notify is
\* called last, only after a status other than the one read was recorded.
C5_SideEffectOrder ==
    \A t \in Targets :
       /\ IsPrefix(calls[t], CheckOrder)
       /\ Count(t, "LogCheck") <= 1
       /\ pc[t] \in {"lock", "write", "alert", "select", "exited"} =>
             Count(t, "LogCheck") = IF Store THEN 1 ELSE 0
       /\ pc[t] \in {"probe", "log", "lock", "write"} => Count(t, "lastState") = 0
       /\ pc[t] \in {"alert", "select", "exited"} => Count(t, "lastState") = 1
       /\ pc[t] \in CheckPcs => Count(t, "Notify") = 0
       /\ Count(t, "Notify") = 1 =>
             /\ Notified(t) /\ notifyArgs[t][2] # notifyArgs[t][3]
             /\ lastState[t] = notifyArgs[t][2]

\* A check that failed has been logged, recorded and notified, in this order.
C5_Witness ==
    \E t \in Targets :
       /\ pc[t] = "select"
       /\ calls[t] = <<"LogCheck", "lastState", "Notify">>
       /\ notifyArgs[t] = <<t, FALSE, TRUE>>

\* C6: a check whose Store.LogCheck returned an error goes on as any other:
\* it takes the mutex, records its status, calls Notify exactly on a flip, and
\* returns to the select, from where the loop leaves only for the next check
\* or because the stop channel is closed.
C6_StoreErrorIgnored ==
    [][\A t \in Targets :
          /\ (logErr'[t] /\ pc[t] = "log") => pc'[t] \in {"lock", "dead"}
          /\ (logErr[t] /\ pc[t] \in {"lock", "write"} /\ pc'[t] # pc[t]) =>
                pc'[t] \in {"write", "alert", "dead"}
          /\ (logErr[t] /\ pc'[t] \in {"alert", "select", "exited"}) =>
                /\ Count(t, "lastState")' = 1
                /\ t \in DOMAIN lastState'
          /\ (logErr[t] /\ pc[t] = "alert") => lastState[t] = result[t].Status
          /\ (logErr[t] /\ Returns(t)) =>
                (Notified(t)' <=> (Notifier /\ Flip(t)))
          /\ (logErr[t] /\ pc[t] = "select" /\ pc'[t] # "select") =>
                \/ pc'[t] = "probe" /\ tickC[t]
                \/ pc'[t] = "exited" /\ stopCh = "closed"
                \/ pc'[t] = "dead"]_vars

\* A check whose LogCheck failed has notified a flip and a tick has started
\* the next check of the monitor.
C6_Witness ==
    \E t \in Targets :
       /\ logErr[t] /\ Notified(t) /\ pc[t] = "select" /\ tickC[t]
       /\ stopCh = "open"

\* C7: a fault in the loop of one monitor does not end the loop of another
\* monitor nor the process, whatever intervals the configuration holds.
C7_NoFaultPropagates ==
    \A t \in Targets :
       fault.in = t => \A u \in Targets \ {t} : pc[u] # "dead"

Seconds(d) ==
    CASE d = <<"3", "0", "s">> -> 30
      [] d = <<"1", "m", "3", "0", "s">> -> 90
      [] d = <<"0">> -> 0
      [] d = <<"-", "5", "s">> -> 0 - 5
      [] OTHER -> 60

NotADuration == { <<"a", "b", "c">>, <<"1", "0">> }

\* C9: the interval of a loop is that of the monitor's own interval string
\* when one is set and that of the global string otherwise; a string that
\* is no duration counts as 60 seconds (an override that is no duration does
\* not fall back to the global interval) and the loop starts all the same.
C9_EffectiveInterval ==
    \A t \in Targets :
       LET own == Cfg.Monitors[t].Interval
           used == IF own # Unset THEN own ELSE Cfg.Global.CheckInterval
       IN  /\ (ticker[t] # "none" \/ fault.in = t) => interval[t] = Seconds(used)
           /\ used \in NotADuration => fault.in # t

\* "svc" has the override "abc" under the global interval 30s, and its loop
\* runs with an interval of 60 seconds.
C9_Witness ==
    /\ Cfg.Monitors["svc"].Interval = <<"a", "b", "c">>
    /\ Cfg.Global.CheckInterval = <<"3", "0", "s">>
    /\ ticker["svc"] = "running" /\ interval["svc"] = 60
    /\ pc["svc"] = "select"

\* C10: once the stop channel is closed, a loop that is at its select leaves
\* it only by exiting; it starts no check from there, tick or no tick.
C10_ExitAtNextSelect ==
    [][\A t \in Targets :
          (stopCh = "closed" /\ pc[t] = "select" /\ pc'[t] # "select") =>
             pc'[t] \in {"exited", "dead"}]_vars


\* The successive places of a goroutine from the probe to the return of
\* performCheck.
CheckSteps ==
    { <<"probe", "log">>, <<"log", "lock">>, <<"lock", "write">>,
      <<"write", "alert">>, <<"alert", "select">> }

\* C11: Stop() does not interrupt a check in flight.  The step that closes
\* stopCh changes no goroutine's place, no result and no side effect; a check
\* that was in flight at that step then moves only from one step of
\* performCheck to the next (unless the process dies), and when it returns it
\* has logged to the Store (if there is one), has recorded its status in
\* lastState, and has notified if the status flipped and there is a Notifier.
C11_StopLeavesCheckRunning ==
    [][ /\ (stopCh = "open" /\ stopCh' = "closed") =>
              /\ pc' = pc
              /\ UNCHANGED <<result, wasUp, exists, lastState, mu, calls>>
        /\ \A t \in caught :
              /\ stopCh = "closed"
              /\ pc[t] \in CheckPcs
              /\ pc'[t] # pc[t] =>
                    \/ pc'[t] = "dead"
                    \/ <<pc[t], pc'[t]>> \in CheckSteps
              /\ Returns(t) =>
                    /\ Count(t, "LogCheck")' = (IF Store THEN 1 ELSE 0)
                    /\ Count(t, "lastState")' = 1
                    /\ lastState[t] = result[t].Status
                    /\ (Flip(t) /\ Notifier) => Notified(t)'
                    /\ t \notin caught' ]_vars

\* A check that was in flight when Stop() was called has logged, has recorded
\* a flipped status and is at its Notify call.
C11_Witness ==
    \E t \in caught :
        /\ stopCh = "closed"
        /\ pc[t] = "alert"
        /\ Store /\ Notifier
        /\ Flip(t)
        /\ calls[t] = <<"LogCheck", "lastState">>
        /\ lastState[t] = result[t].Status


\* C12: Notify does not wait for its Sends.  The step on which performCheck
\* notifies returns the goroutine to its select with the Sends it spawned
\* still in flight, none awaited; and while Sends are in flight every loop
\* can take its next step: a check in progress goes on (unless it waits for
\* the mutex), and a loop at its select takes a waiting tick.
C12_SendsDecoupled ==
    [][ /\ \A t \in Targets :
              (Returns(t) /\ Notified(t)') =>
                  /\ sending' >= sending
                  /\ sending' = MaxSending \/ sending' = sending + Senders
        /\ sending > 0 =>
              \A t \in Targets :
                  /\ (pc[t] \in CheckPcs /\ (pc[t] = "lock" => mu = Unlocked))
                        => ENABLED PerformCheck(t)
                  /\ (pc[t] = "select" /\ tickC[t]) => ENABLED SelectTick(t) ]_vars

\* With one sender, a second notification has been made while the Send of
\* an earlier one had not returned.
C12_Witness ==
    /\ Senders = 1
    /\ sending = 2
    /\ \E t \in Targets : pc[t] = "select" /\ Notified(t)


\* The places of performCheck at which its result is built.
ResultPcs == {"log", "lock", "write", "alert"}

\* C13: every check of an icmp monitor yields a failed result carrying the
\* 'not implemented' error; from its first check on the monitor is recorded
\* down, and no Notify call is ever made for it.
C13_IcmpAlwaysDown ==
    \A t \in Targets :
        Cfg.Monitors[t].Type = "icmp" =>
            /\ pc[t] \in ResultPcs =>
                  /\ ~result[t].Status
                  /\ result[t].Error =
                       "ICMP not yet implemented (requires decision on root vs shell)"
            /\ t \in DOMAIN lastState => ~lastState[t]
            /\ done[t] # << >> => (~done[t][1] /\ t \in DOMAIN lastState)
            /\ ~Notified(t)
            /\ Count(t, "Notify") = 0

\* An icmp monitor that was recorded down by an earlier check has failed
\* again and is about to return without a notification.
C13_Witness ==
    \E t \in Targets :
        /\ Cfg.Monitors[t].Type = "icmp"
        /\ Notifier
        /\ pc[t] = "alert"
        /\ done[t] = <<FALSE>>
        /\ exists[t] /\ ~wasUp[t]
        /\ ~result[t].Status

\* C14: the check run is chosen by the type: http and https run the HTTP
\* check, tcp the TCP check, icmp the ICMP check; any other type runs the
\* HTTP check when the URL is not empty and otherwise fails with 'unknown
\* monitor type'.  Whatever was chosen, the result is logged to the Store (if
\* there is one) and recorded in lastState before performCheck returns.
C14_DispatchByType ==
    [][\A t \in Targets :
          LET m == Cfg.Monitors[t]
              out == <<result[t].Status, result[t].Error>>
          IN  /\ pc[t] \in ResultPcs =>
                    CASE m.Type \in {"http", "https"} -> out \in HTTPOutcomes
                      [] m.Type = "tcp" -> out \in TCPOutcomes
                      [] m.Type = "icmp" -> out \in ICMPOutcomes
                      [] OTHER ->
                           IF m.URL # ""
                           THEN out \in HTTPOutcomes
                           ELSE out = <<FALSE, "unknown monitor type">>
              /\ Returns(t) =>
                    /\ Count(t, "LogCheck") = (IF Store THEN 1 ELSE 0)
                    /\ Count(t, "lastState") = 1
                    /\ lastState[t] = result[t].Status
                    /\ Notified(t)' <=> (Flip(t) /\ Notifier) ]_vars

\* A monitor without type and URL has failed for the second time with
\* 'unknown monitor type'; the failure is logged and recorded.
C14_Witness ==
    \E t \in Targets :
        /\ Cfg.Monitors[t].Type = "" /\ Cfg.Monitors[t].URL = ""
        /\ pc[t] = "alert"
        /\ result[t].Error = "unknown monitor type"
        /\ calls[t] = <<"LogCheck", "lastState">>
        /\ lastState[t] = FALSE
        /\ exists[t]

\* C15: a result is a success without error text or a failure with one.
C15_StatusMatchesError ==
    \A t \in Targets :
        pc[t] \in ResultPcs =>
            \/ result[t].Status /\ result[t].Error = ""
            \/ ~result[t].Status /\ result[t].Error # ""

\* One monitor holds a successful result and the other a failed one.
C15_Witness ==
    \E t, u \in Targets :
        /\ pc[t] \in ResultPcs /\ pc[u] \in ResultPcs
        /\ result[t].Status /\ result[t].Error = ""
        /\ ~result[u].Status /\ result[u].Error # ""


\* C16: a Notify call for a monitor carries the monitor's name, the status
\* of the check that makes it, and the status lastState held for the monitor
\* just before that check overwrote it; the two statuses differ.  On the
\* overwriting step the locals of the check hold the entry about to be
\* replaced, they stay as they are until the check returns, and the
\* notifying step passes them on.
C16_NotifyArguments ==
    [][\A t \in Targets :
          /\ (pc[t] = "write" /\ pc'[t] = "alert") =>
                /\ exists[t] <=> t \in DOMAIN lastState
                /\ exists[t] => wasUp[t] = lastState[t]
                /\ lastState'[t] = result[t].Status
                /\ wasUp'[t] = wasUp[t] /\ exists'[t] = exists[t]
                /\ result'[t] = result[t]
          /\ (Returns(t) /\ Notified(t)') =>
                /\ exists[t]
                /\ notifyArgs'[t][1] = Cfg.Monitors[t].Name
                /\ notifyArgs'[t][1] = t
                /\ notifyArgs'[t][2] = result[t].Status
                /\ notifyArgs'[t][2] = lastState[t]
                /\ notifyArgs'[t][3] = wasUp[t]
                /\ notifyArgs'[t][3] = done[t][1]
                /\ notifyArgs'[t][2] # notifyArgs'[t][3] ]_vars

\* A recovery has been notified: Notify(name, true, false).
C16_Witness ==
    \E t \in Targets :
        /\ pc[t] = "select"
        /\ notifyArgs[t] = <<t, TRUE, FALSE>>
        /\ lastState[t] = TRUE

\* C17: the checks of one monitor never overlap.  A monitor has at most one
\* call of performCheck that has not returned, a check starts only when the
\* previous one has returned, and every LogCheck, lastState update and
\* Notify of the monitor is made by that one check in progress, so they
\* occur check by check in the order the checks were started.
C17_ChecksDoNotOverlap ==
    [][\A t \in Targets :
          /\ open[t] <= 1
          /\ open[t] = 1 <=> pc[t] \in CheckPcs
          /\ open'[t] > open[t] =>
                /\ open[t] = 0
                /\ pc[t] \in {"ticker", "select"}
                /\ pc'[t] = "probe"
                /\ calls'[t] = << >>
          /\ (calls'[t] # calls[t] /\ calls'[t] # << >>) =>
                /\ open[t] = 1
                /\ IsPrefix(calls[t], calls'[t])
                /\ IsPrefix(calls'[t], CheckOrder) ]_vars

\* A monitor is in its second check, with the first one returned.
C17_Witness ==
    \E t \in Targets :
        /\ open[t] = 1
        /\ pc[t] = "alert"
        /\ done[t] # << >>
        /\ calls[t] = <<"LogCheck", "lastState">>


\* C18: the read of the prior status and the write of the new one are one
\* critical section under Engine.mu.  At most one goroutine is between its
\* read and its write, and it is the holder of the mutex; a goroutine reads
\* only when nobody is there; while a goroutine stays there nobody else
\* reads and lastState does not change; and lastState changes only by the
\* write of the goroutine that is there.
C18_CriticalSection ==
    [][/\ Cardinality({ t \in Targets : pc[t] = "write" }) <= 1
       /\ \A t \in Targets :
             /\ pc[t] = "write" <=> mu = t
             /\ (pc[t] = "lock" /\ pc'[t] = "write") =>
                   /\ mu = Unlocked
                   /\ \A u \in Targets : pc[u] # "write"
             /\ (pc[t] = "write" /\ pc'[t] = "write") =>
                   /\ lastState' = lastState
                   /\ wasUp'[t] = wasUp[t] /\ exists'[t] = exists[t]
                   /\ \A u \in Targets \ {t} : pc'[u] # "write"
       /\ lastState' # lastState =>
             \E t \in Targets :
                 /\ pc[t] = "write" /\ mu = t /\ pc'[t] = "alert"
                 /\ mu' = Unlocked
                 /\ \A u \in DOMAIN lastState \ {t} :
                       u \in DOMAIN lastState' /\ lastState'[u] = lastState[u] ]_vars

\* One goroutine is between its read and its write while the other waits for
\* the mutex.
C18_Witness ==
    \E t, u \in Targets :
        /\ pc[t] = "write" /\ mu = t
        /\ pc[u] = "lock"
        /\ u \in DOMAIN lastState

\* C19: the keys of lastState are names of configured monitors; a monitor has
\* an entry iff one of its checks has made its state update; an entry is
\* never removed; and the entry is the status of the monitor's latest check
\* that made its update (the one about to return, or else the last one that
\* returned).
C19_LastStateEntries ==
    [][/\ DOMAIN lastState \subseteq { Cfg.Monitors[t].Name : t \in Targets }
       /\ DOMAIN lastState \subseteq DOMAIN lastState'
       /\ \A t \in Targets :
             /\ t \in DOMAIN lastState <=>
                   (done[t] # << >> \/ Count(t, "lastState") = 1)
             /\ pc[t] = "alert" => lastState[t] = result[t].Status
             /\ (pc[t] # "alert" /\ done[t] # << >>) => lastState[t] = done[t][1]
             /\ Returns(t) => done'[t] = <<lastState[t]>> ]_vars

\* Both monitors have entries, one up and one down, and the entry of one has
\* just been overwritten with a flipped status.
C19_Witness ==
    \E t, u \in Targets :
        /\ DOMAIN lastState = Targets
        /\ lastState[t] /\ ~lastState[u]
        /\ pc[t] = "alert" /\ Flip(t)
        /\ done[u] = <<FALSE>>

\* C20: Stop() is safe for one call only.  The call that finds stopCh open
\* closes it and raises no fault, and from then on every loop at its select
\* can exit; a call that finds stopCh closed cannot return normally: it
\* panics with 'close of closed channel' and the process is gone.
C20_SecondStopPanics ==
    [][/\ (stopCh = "open" /\ stopCh' = "closed") =>
             /\ fault' = NoFault
             /\ pc' = pc
       /\ stopCh = "closed" =>
             \A t \in Targets : pc[t] = "select" => ENABLED SelectStop(t)
       /\ (Alive /\ stopCh = "closed") =>
             /\ ENABLED Stop
             /\ ~ENABLED (Stop /\ fault' = NoFault)
       /\ (Alive /\ fault'.in = "Stop") =>
             /\ stopCh = "closed"
             /\ fault'.msg = "close of closed channel"
             /\ \A t \in Targets : pc'[t] = "dead" ]_vars

\* Stop() has been called a second time.
C20_Witness ==
    /\ stopCh = "closed"
    /\ fault = [msg |-> "close of closed channel", in |-> "Stop"]
    /\ \A t \in Targets : pc[t] = "dead"


\* C21: every loop that Start() launched produces a result, Stop() or no
\* Stop().  Once Stop() has been called, a loop that has ended, by leaving
\* its select or by a fault of its own, has completed a check: the result
\* was logged to the Store (if there is one) and recorded in lastState.
C21_InitialCheckAlways ==
    \A t \in Targets :
        (stopCh = "closed" /\ (pc[t] = "exited" \/ fault.in = t)) =>
            /\ done[t] # << >>
            /\ t \in DOMAIN lastState
            /\ Store => Count(t, "LogCheck") = 1

=============================================================================
